---------------------------- MODULE Spec2Model ----------------------------
(***************************************************************************)
(* function-deletion-protection: the composition function of src/fn.go.    *)
(*                                                                         *)
(* RunFunction reads the observed composite (the primary), the observed    *)
(* composed resources and the desired composed resources of a request,     *)
(* adds a Usage / ClusterUsage for every member that carries the           *)
(* block-deletion label, adds one for the composite, and installs the      *)
(* resulting desired set in the response.                                  *)
(*                                                                         *)
(* Strings that the code concatenates or compares (resource names, map     *)
(* keys) are TLA+ strings.  A label value is a sequence of one-character   *)
(* strings, so that strings.EqualFold is computed character by character.  *)
(***************************************************************************)
EXTENDS Integers, Sequences, FiniteSets, TLC

(***************************************************************************)
(* Constants of src/fn.go and of the protection API package it imports.    *)
(***************************************************************************)
ProtectionLabelBlockDeletion == "protection.fn.crossplane.io/block-deletion"

ProtectionLabelEnabled == "protection.fn.crossplane.io/enabled"

ProtectionGroupVersion == "protection.crossplane.io/v1beta1"

UsageKind == "Usage"

ClusterUsageKind == "ClusterUsage"

(***************************************************************************)
(* Bounds of the model.                                                    *)
(***************************************************************************)
\* Largest number of entries of the observed and of the desired set.
MaxMembers == 2

(***************************************************************************)
(* JSON values as the unstructured objects hold them.  A value is a        *)
(* record [t, v]: t is the JSON type, v the characters of a string.        *)
(***************************************************************************)
Str(chars) == [t |-> "string", v |-> chars]

Num == [t |-> "number", v |-> <<"1">>]

Bool == [t |-> "bool", v |-> <<"t", "r", "u", "e">>]

\* The empty map.
Empty == <<>>

\* metadata.labels of an object: Object itself nil, the field absent, a
\* scalar where a map is expected, or a map from label keys to JSON values.
NilObject == [t |-> "nil", m |-> Empty]

NoLabels == [t |-> "absent", m |-> Empty]

ScalarLabels == [t |-> "scalar", m |-> Empty]

LabelMap(m) == [t |-> "map", m |-> m]

\* A map with the single entry k -> v.
One(k, v) == [x \in {k} |-> v]

\* Map a with the entries of b added, b winning (Go: a[k] = v for k, v in b).
Override(a, b) ==
  [k \in DOMAIN a \cup DOMAIN b |-> IF k \in DOMAIN b THEN b[k] ELSE a[k]]

(***************************************************************************)
(* strings.EqualFold(val, "true"): equality under simple case folding.     *)
(* The letters t, r, u, e fold only with their ASCII capitals.             *)
(***************************************************************************)
FoldChar(c) ==
  CASE c = "T" -> "t"
    [] c = "R" -> "r"
    [] c = "U" -> "u"
    [] c = "E" -> "e"
    [] c = "F" -> "f"
    [] c = "A" -> "a"
    [] c = "L" -> "l"
    [] c = "S" -> "s"
    [] c = "Y" -> "y"
    [] OTHER -> c

EqualFold(s, t) ==
  /\ Len(s) = Len(t)
  /\ \A i \in 1..Len(s) : FoldChar(s[i]) = FoldChar(t[i])

TrueChars == <<"t", "r", "u", "e">>

(***************************************************************************)
(* The label checks.                                                       *)
(***************************************************************************)
\* unstructured GetLabels(), used by ProtectXR (fn.go:116): the labels as a
\* map[string]string; nil (no entries) when the field is missing, is not a
\* map, or holds any value that is not a string.
GetLabels(labels) ==
  IF /\ labels.t = "map"
     /\ \A k \in DOMAIN labels.m : labels.m[k].t = "string"
  THEN [k \in DOMAIN labels.m |-> labels.m[k].v]
  ELSE Empty

\* ProtectXR (fn.go:115-123), on the composite's metadata.labels.
ProtectXR(labels) ==
  LET m == GetLabels(labels)
  IN  /\ ProtectionLabelBlockDeletion \in DOMAIN m
      /\ EqualFold(m[ProtectionLabelBlockDeletion], TrueChars)

\* MatchLabel (fn.go:131-146), on a composed resource's metadata.labels:
\* GetValueInto fails unless the field is a map; the value must be a string.
MatchLabel(labels, label) ==
  IF labels.t = "nil" THEN FALSE
  ELSE IF labels.t # "map" THEN FALSE
  ELSE /\ label \in DOMAIN labels.m
       /\ labels.m[label].t = "string"
       /\ EqualFold(labels.m[label].v, TrueChars)

\* metadata.labels of an object; a usage built by this function has none.
LabelsOf(u) ==
  IF "labels" \in DOMAIN u.metadata THEN u.metadata.labels ELSE NoLabels

\* ProtectResource (fn.go:126-128).
ProtectResource(dc, label) == MatchLabel(LabelsOf(dc), label)

(***************************************************************************)
(* Usage construction.                                                     *)
(***************************************************************************)
MemberReason ==
  "Created by function-deletion-protection via label " \o ProtectionLabelBlockDeletion

XRReason ==
  "deletion blocked by function-deletion-protection via label " \o ProtectionLabelBlockDeletion

\* The resourceRef and kind chosen by the namespace (fn.go:152-164, 187-199).
ResourceRef(u) ==
  IF u.metadata.namespace = ""
  THEN [name |-> u.metadata.name]
  ELSE [name |-> u.metadata.name, namespace |-> u.metadata.namespace]

\* Mutant of UsageType: the test of the namespace inverted.
UsageTypeInverted(u) ==
  IF u.metadata.namespace # "" THEN ClusterUsageKind ELSE UsageKind

UsageType(u) ==
  IF u.metadata.namespace = "" THEN ClusterUsageKind ELSE UsageKind

\* GenerateUsage (fn.go:149-181).
GenerateUsage(u) ==
  [apiVersion |-> ProtectionGroupVersion,
   kind       |-> UsageType(u),
   metadata   |-> [name |-> u.metadata.name \o "-function-protection"],
   spec       |-> [of |-> [apiVersion  |-> u.apiVersion,
                           kind        |-> u.kind,
                           resourceRef |-> ResourceRef(u)],
                   reason |-> MemberReason]]

\* GenerateXRUsage (fn.go:184-216).
GenerateXRUsage(u) ==
  [apiVersion |-> ProtectionGroupVersion,
   kind       |-> UsageType(u),
   metadata   |-> [name |-> u.metadata.name \o "-function-protection"],
   spec       |-> [of |-> [apiVersion  |-> u.apiVersion,
                           kind        |-> u.kind,
                           resourceRef |-> ResourceRef(u)],
                   reason |-> XRReason]]

\* convertViaJSON (fn.go:218-224): json.Marshal of the map, json.Unmarshal
\* into an unstructured object.  Every leaf of a usage is a string and every
\* inner node a map, which JSON carries unchanged; Unmarshal refuses an
\* object without a kind.
ConvertViaJSON(usage) ==
  [err |-> usage.kind = "", obj |-> usage]

\* The keys under which the usages are stored (fn.go:78, fn.go:95).
\* Mutant of MemberUsageName: the suffix of the composite's usage.
MemberUsageNameXRSuffix(observed) == observed.metadata.name \o "-xr-protection"

MemberUsageName(observed) == observed.metadata.name \o "-protection"

XRUsageName(xr) == xr.metadata.name \o "-xr-protection"


(***************************************************************************)
(* The requests the model runs RunFunction on.                             *)
(***************************************************************************)
Resource(apiVersion, kind, name, namespace, labels) ==
  [apiVersion |-> apiVersion,
   kind       |-> kind,
   metadata   |-> [name |-> name, namespace |-> namespace, labels |-> labels]]

Labelled(chars) == LabelMap(One(ProtectionLabelBlockDeletion, Str(chars)))

\* Labels of the composed resources of a request: none, or the label set.
RequestLabels == {NoLabels, Labelled(<<"t", "r", "u", "e">>)}

\* Labels of the composite of a request.
CompositeLabels ==
  RequestLabels \cup {Labelled(<<"T", "R", "U", "E">>),
                      Labelled(<<"f", "a", "l", "s", "e">>)}

Namespaces == {"", "ns1"}

\* The composite of a request.
Composites ==
  {Resource("example.org/v1", "XDatabase", "db-1", ns, l) :
     ns \in Namespaces, l \in CompositeLabels}

\* Observed composed resources: two kinds may share a metadata.name, and a
\* composed resource may be named like the composite.
ObservedResources ==
  {Resource("s3.example.org/v1", "Bucket", "inst-1", ns, l) :
     ns \in Namespaces, l \in RequestLabels}
  \cup
  {Resource("iam.example.org/v1", "Role", "inst-1", "ns1", l) : l \in RequestLabels}
  \cup
  {Resource("iam.example.org/v1", "Role", "db-1", "", l) : l \in RequestLabels}

\* Desired composed resources, as the previous functions left them.
DesiredResources ==
  {Resource("s3.example.org/v1", "Bucket", "inst-1", "ns1", l) :
     l \in RequestLabels}

\* Member names: a plain one, and the two names the function itself stores
\* usages under for the resources above.
MemberNames == {"m1", "inst-1-protection", "db-1-xr-protection"}

\* All maps from at most MaxMembers member names to resources of R.
Members(R) ==
  UNION {[S -> R] : S \in {T \in SUBSET MemberNames : Cardinality(T) <= MaxMembers}}

Requests ==
  [composite : Composites,
   observed  : Members(ObservedResources),
   desired   : Members(DesiredResources)]

(***************************************************************************)
(* RunFunction (fn.go:34-112) as a state machine.                          *)
(***************************************************************************)
VARIABLES
  req,               \* the request: composite, observed and desired sets
  pc,                \* the position in RunFunction
  observedComposite, \* fn.go:39
  observedComposed,  \* fn.go:46
  desiredComposed,   \* fn.go:59, the map the loop ranges over and writes
  pending,           \* keys the range loop has still to produce
  protectedCount,    \* fn.go:64
  rsp,               \* the response: desired set, fatal result, conditions
  arg,               \* the argument of a call of one of the helpers alone
  result             \* and what the helper returned

vars ==
  <<req, pc, observedComposite, observedComposed, desiredComposed, pending,
    protectedCount, rsp, arg, result>>

\* No helper has been called.
NoCall == [fn |-> "", value |-> FALSE]

NoResource == Resource("", "", "", "", NilObject)

\* response.To (fn.go:37): the response starts with the desired state of
\* the request passed through, no result and no condition.
ResponseTo(r) == [desired |-> r.desired, fatal |-> "", conditions |-> {}]

\* response.Fatal (fn.go:41, 48, 61, 75, 92, 100).
Fatal(r, msg) == [r EXCEPT !.fatal = msg]

Init ==
  /\ req \in Requests
  /\ pc = "GetObservedCompositeResource"
  /\ observedComposite = NoResource
  /\ observedComposed = Empty
  /\ desiredComposed = Empty
  /\ pending = {}
  /\ protectedCount = 0
  /\ rsp = ResponseTo(req)
  /\ arg = NoLabels
  /\ result = NoCall

\* fn.go:39-43.  err: the envelope of the composite is malformed.
GetObservedCompositeResource ==
  /\ pc = "GetObservedCompositeResource"
  /\ \E err \in BOOLEAN :
       IF err
       THEN /\ rsp' = Fatal(rsp, "cannot get observed composite")
            /\ pc' = "return"
            /\ UNCHANGED observedComposite
       ELSE /\ observedComposite' = req.composite
            /\ pc' = "GetObservedComposedResources"
            /\ UNCHANGED rsp
  /\ UNCHANGED <<arg, result, req, observedComposed, desiredComposed, pending, protectedCount>>

\* fn.go:46-50.  Only an entry of the set can be malformed.
GetObservedComposedResources ==
  /\ pc = "GetObservedComposedResources"
  /\ \E err \in BOOLEAN :
       /\ err => DOMAIN req.observed # {}
       /\ IF err
          THEN /\ rsp' = Fatal(rsp, "cannot get observed resources")
               /\ pc' = "return"
               /\ UNCHANGED observedComposed
          ELSE /\ observedComposed' = req.observed
               /\ pc' = "GetDesiredComposedResources"
               /\ UNCHANGED rsp
  /\ UNCHANGED <<arg, result, req, observedComposite, desiredComposed, pending, protectedCount>>

\* fn.go:59-65.  On success the loop starts: every key of the map is due.
GetDesiredComposedResources ==
  /\ pc = "GetDesiredComposedResources"
  /\ \E err \in BOOLEAN :
       /\ err => DOMAIN req.desired # {}
       /\ IF err
          THEN /\ rsp' = Fatal(rsp, "cannot get desired composed resources")
               /\ pc' = "return"
               /\ UNCHANGED <<desiredComposed, pending, protectedCount>>
          ELSE /\ desiredComposed' = req.desired
               /\ pending' = DOMAIN req.desired
               /\ protectedCount' = 0
               /\ pc' = "range"
               /\ UNCHANGED rsp
  /\ UNCHANGED <<arg, result, req, observedComposite, observedComposed>>

\* The condition of fn.go:67 and fn.go:70 for the entry name of map dc.
Protects(dc, oc, name) ==
  /\ name \in DOMAIN oc
  /\ \/ ProtectResource(dc[name], ProtectionLabelBlockDeletion)
     \/ ProtectResource(oc[name], ProtectionLabelBlockDeletion)

\* One iteration of the loop of fn.go:65-84 over the entry name.  Go's range
\* produces every entry that was in the map when the loop began once, with
\* the value it has when it is produced; an entry created during the loop is
\* produced or skipped (visitNew).  convErr: convertViaJSON returned an
\* error.
RangeBody(name, visitNew, convErr) ==
  IF Protects(desiredComposed, observedComposed, name)
  THEN LET observed == observedComposed[name]
           conv == ConvertViaJSON(GenerateUsage(observed))
           uname == MemberUsageName(observed)
       IN  IF conv.err \/ convErr
           THEN /\ rsp' = Fatal(rsp, "cannot convert usage to unstructured")
                /\ pc' = "return"
                /\ UNCHANGED <<desiredComposed, pending, protectedCount>>
           ELSE /\ protectedCount' = protectedCount + 1
                /\ desiredComposed' = Override(desiredComposed, One(uname, conv.obj))
                /\ pending' =
                     (pending \ {name}) \cup
                     (IF uname \notin DOMAIN desiredComposed /\ visitNew
                      THEN {uname} ELSE {})
                /\ UNCHANGED <<rsp, pc>>
  ELSE /\ pending' = pending \ {name}
       /\ UNCHANGED <<desiredComposed, protectedCount, rsp, pc>>

Range ==
  /\ pc = "range"
  /\ \E name \in pending, visitNew \in BOOLEAN, convErr \in BOOLEAN :
       RangeBody(name, visitNew, convErr)
  /\ UNCHANGED <<arg, result, req, observedComposite, observedComposed>>

\* The loop ends when range has produced every entry due.
RangeEnd ==
  /\ pc = "range"
  /\ pending = {}
  /\ pc' = "ProtectXR"
  /\ UNCHANGED <<arg, result, req, observedComposite, observedComposed, desiredComposed,
                 pending, protectedCount, rsp>>

\* Mutant of ProtectsComposite: the count of protected members ignored.
ProtectsCompositeLabelOnly(xr, count) == ProtectXR(LabelsOf(xr))

\* The condition of fn.go:87.
ProtectsComposite(xr, count) == ProtectXR(LabelsOf(xr)) \/ count > 0

\* fn.go:87-97.
ProtectComposite ==
  /\ pc = "ProtectXR"
  /\ \E convErr \in BOOLEAN :
       IF ProtectsComposite(observedComposite, protectedCount)
       THEN LET conv == ConvertViaJSON(GenerateXRUsage(observedComposite))
                uname == XRUsageName(observedComposite)
            IN  IF conv.err \/ convErr
                THEN /\ rsp' = Fatal(rsp, "cannot convert usage to unstructured")
                     /\ pc' = "return"
                     /\ UNCHANGED desiredComposed
                ELSE /\ desiredComposed' = Override(desiredComposed, One(uname, conv.obj))
                     /\ pc' = "SetDesiredComposedResources"
                     /\ UNCHANGED rsp
       ELSE /\ ~convErr
            /\ pc' = "SetDesiredComposedResources"
            /\ UNCHANGED <<desiredComposed, rsp>>
  /\ UNCHANGED <<arg, result, req, observedComposite, observedComposed, pending, protectedCount>>

\* response.SetDesiredComposedResources (fn.go:99): the entries of dcds are
\* written into the response's desired resources one by one; when it
\* returns an error, those of some set written of them are already there.
SetDesiredComposedResources(r, dcds, written) ==
  [r EXCEPT !.desired = Override(r.desired, [k \in written |-> dcds[k]])]

\* response.ConditionTrue(rsp, "FunctionSuccess", "Success") (fn.go:108-109).
ConditionTrue(r, type) == [r EXCEPT !.conditions = r.conditions \cup {type}]

\* Mutant of SetDesired: no return after the failure, so that the condition
\* is attached all the same.
SetDesiredNoReturn ==
  /\ pc = "SetDesiredComposedResources"
  /\ \E err \in BOOLEAN :
       /\ rsp' = ConditionTrue(
                    IF err THEN Fatal(rsp, "cannot set desired resources")
                    ELSE SetDesiredComposedResources(rsp, desiredComposed,
                                                     DOMAIN desiredComposed),
                    "FunctionSuccess")
       /\ pc' = "return"
  /\ UNCHANGED <<arg, result, req, observedComposite, observedComposed,
                 desiredComposed, pending, protectedCount>>

\* fn.go:99-111.
SetDesired ==
  /\ pc = "SetDesiredComposedResources"
  /\ \E err \in BOOLEAN :
       IF err
       THEN \E bad \in DOMAIN desiredComposed :
            \E written \in SUBSET (DOMAIN desiredComposed \ {bad}) :
              /\ rsp' = Fatal(SetDesiredComposedResources(rsp, desiredComposed, written),
                              "cannot set desired resources")
              /\ pc' = "return"
       ELSE /\ rsp' = ConditionTrue(
                        SetDesiredComposedResources(rsp, desiredComposed,
                                                    DOMAIN desiredComposed),
                        "FunctionSuccess")
            /\ pc' = "return"
  /\ UNCHANGED <<arg, result, req, observedComposite, observedComposed, desiredComposed,
                 pending, protectedCount>>

Next ==
  \/ GetObservedCompositeResource
  \/ GetObservedComposedResources
  \/ GetDesiredComposedResources
  \/ Range
  \/ RangeEnd
  \/ ProtectComposite
  \/ SetDesired

Spec == Init /\ [][Next]_vars

(***************************************************************************)
(* What the claims speak of.                                               *)
(***************************************************************************)
Returned == pc = "return"

Succeeded == Returned /\ rsp.fatal = ""

\* A usage this function builds, told from a resource of the request.
IsUsage(r) == r.apiVersion = "protection.crossplane.io/v1beta1"

IsMemberUsage(r) ==
  /\ IsUsage(r)
  /\ r.spec.reason =
       "Created by function-deletion-protection via label protection.fn.crossplane.io/block-deletion"

IsXRUsage(r) ==
  /\ IsUsage(r)
  /\ r.spec.reason =
       "deletion blocked by function-deletion-protection via label protection.fn.crossplane.io/block-deletion"

\* spec.of of usage r names resource u: apiVersion, kind, name and, when u
\* has one, namespace.
References(r, u) ==
  /\ r.spec.of.apiVersion = u.apiVersion
  /\ r.spec.of.kind = u.kind
  /\ r.spec.of.resourceRef.name = u.metadata.name
  /\ u.metadata.namespace # "" =>
       /\ "namespace" \in DOMAIN r.spec.of.resourceRef
       /\ r.spec.of.resourceRef.namespace = u.metadata.namespace

\* The sixteen spellings of "true".
TrueSpellings ==
  {<<a, b, c, d>> : a \in {"t", "T"}, b \in {"r", "R"},
                    c \in {"u", "U"}, d \in {"e", "E"}}

\* Labels document l carries block-deletion with a string that spells true.
Marked(l) ==
  /\ l.t = "map"
  /\ "protection.fn.crossplane.io/block-deletion" \in DOMAIN l.m
  /\ l.m["protection.fn.crossplane.io/block-deletion"].t = "string"
  /\ l.m["protection.fn.crossplane.io/block-deletion"].v \in TrueSpellings

\* Member names of the request that are in both sets.
InBoth == DOMAIN req.desired \cap DOMAIN req.observed

\* Entries of the response's desired set that the request did not hold.
Gained ==
  {k \in DOMAIN rsp.desired :
     k \notin DOMAIN req.desired \/ rsp.desired[k] # req.desired[k]}

(***************************************************************************)
(* C1: after a successful RunFunction, every member in both sets that is   *)
(* labelled on either copy has, under <observed metadata.name>-protection, *)
(* a usage that references its observed copy.                              *)
(***************************************************************************)
C1_MemberUsagePresent ==
  Succeeded =>
    \A k \in InBoth :
      (Marked(req.desired[k].metadata.labels) \/ Marked(req.observed[k].metadata.labels)) =>
        LET key == req.observed[k].metadata.name \o "-protection"
        IN  /\ key \in DOMAIN rsp.desired
            /\ IsUsage(rsp.desired[key])
            /\ References(rsp.desired[key], req.observed[k])

C3_OnlyMembersInBoth ==
  Succeeded =>
    \A k \in DOMAIN rsp.desired :
      IsMemberUsage(rsp.desired[k]) =>
        \E m \in InBoth :
          /\ References(rsp.desired[k], req.observed[m])
          /\ k = req.observed[m].metadata.name \o "-protection"

(***************************************************************************)
(* C4: the desired set of a successful RunFunction is that of the run      *)
(* which visits the received entries in one fixed order and none of the    *)
(* entries the loop inserted: every order ends with the same desired set.  *)
(***************************************************************************)
RECURSIVE InOrder(_, _, _)
\* The desired map and count after the loop visits the keys of todo, least
\* first in a fixed order, starting from dc and count.
InOrder(dc, count, todo) ==
  IF todo = {} THEN [dc |-> dc, count |-> count]
  ELSE LET name == CHOOSE n \in todo : TRUE
       IN  IF Protects(dc, req.observed, name)
           THEN InOrder(Override(dc, One(MemberUsageName(req.observed[name]),
                                         GenerateUsage(req.observed[name]))),
                        count + 1, todo \ {name})
           ELSE InOrder(dc, count, todo \ {name})

FixedOrderOutput ==
  LET loop == InOrder(req.desired, 0, DOMAIN req.desired)
  IN  IF ProtectsComposite(req.composite, loop.count)
      THEN Override(loop.dc, One(XRUsageName(req.composite),
                                 GenerateXRUsage(req.composite)))
      ELSE loop.dc

\* C4: a successful RunFunction ends with the desired set of the fixed order.
C4_OrderIndependent == Succeeded => rsp.desired = FixedOrderOutput

(***************************************************************************)
(* C5: after a successful RunFunction every entry of the desired set as    *)
(* received is still in the desired set, unmodified.                       *)
(***************************************************************************)
C5_OnlyAdds ==
  Succeeded =>
    \A k \in DOMAIN req.desired :
      k \in DOMAIN rsp.desired /\ rsp.desired[k] = req.desired[k]

(***************************************************************************)
(* C10: after a successful RunFunction no two usages of the desired set    *)
(* stored under different keys have the same kind and metadata.name.       *)
(***************************************************************************)
C10_UsagesDistinct ==
  Succeeded =>
    \A k1, k2 \in DOMAIN rsp.desired :
      (k1 # k2 /\ IsUsage(rsp.desired[k1]) /\ IsUsage(rsp.desired[k2])) =>
        <<rsp.desired[k1].kind, rsp.desired[k1].metadata.name>> #
        <<rsp.desired[k2].kind, rsp.desired[k2].metadata.name>>

(***************************************************************************)
(* C6, as claimed: a failure ends RunFunction at once; the response then   *)
(* holds no usage, holds no desired resource at all when the desired set   *)
(* could not be retrieved, and carries no FunctionSuccess condition, which *)
(* is attached exactly when RunFunction returns without a failure.         *)
(***************************************************************************)
C6_FailFastEmpty ==
  /\ rsp.fatal # "" => Returned
  /\ rsp.fatal # "" => \A k \in DOMAIN rsp.desired : ~IsUsage(rsp.desired[k])
  /\ rsp.fatal = "cannot get desired composed resources" => rsp.desired = Empty
  /\ "FunctionSuccess" \in rsp.conditions <=> Succeeded

(***************************************************************************)
(* C6, amended: a failure ends RunFunction at once; after a failed         *)
(* retrieval or conversion the response's desired set is the one the       *)
(* request carried, unchanged; after a failed installation every entry of  *)
(* it is one of the request's or one of those being installed; and the     *)
(* FunctionSuccess condition is attached exactly when RunFunction returns  *)
(* without a failure.                                                      *)
(***************************************************************************)
C6_FailFast ==
  /\ rsp.fatal # "" => Returned
  /\ rsp.fatal \in {"cannot get observed composite",
                    "cannot get observed resources",
                    "cannot get desired composed resources",
                    "cannot convert usage to unstructured"} =>
       rsp.desired = req.desired
  /\ rsp.fatal = "cannot set desired resources" =>
       /\ DOMAIN req.desired \subseteq DOMAIN rsp.desired
       /\ \A k \in DOMAIN rsp.desired :
            \/ k \in DOMAIN req.desired /\ rsp.desired[k] = req.desired[k]
            \/ k \in DOMAIN desiredComposed /\ rsp.desired[k] = desiredComposed[k]
  /\ "FunctionSuccess" \in rsp.conditions <=> Succeeded
  /\ Succeeded => rsp.desired = desiredComposed

\* A conversion failed after a member usage had been put in the local map.
C6_Witness ==
  /\ Returned
  /\ rsp.fatal = "cannot convert usage to unstructured"
  /\ protectedCount > 0
  /\ desiredComposed # req.desired

(***************************************************************************)
(* C7: the scenario.  Composite db-1, no namespace, no label; desired      *)
(* member m1 = inst-1 in ns1 labelled block-deletion "true"; the observed  *)
(* set holds m1, the same object.                                          *)
(***************************************************************************)
Scenario ==
  /\ req.composite.metadata.name = "db-1"
  /\ req.composite.metadata.namespace = ""
  /\ req.composite.metadata.labels = NoLabels
  /\ DOMAIN req.desired = {"m1"}
  /\ req.desired["m1"].metadata.name = "inst-1"
  /\ req.desired["m1"].metadata.namespace = "ns1"
  /\ req.desired["m1"].metadata.labels = Labelled(<<"t", "r", "u", "e">>)
  /\ DOMAIN req.observed = {"m1"}
  /\ req.observed["m1"].metadata.name = "inst-1"
  /\ req.observed["m1"].metadata.namespace = "ns1"

\* The two usages of the scenario, the member's stored under memberKey.
ScenarioOutput(memberKey) ==
  /\ Gained = {memberKey, "db-1-xr-protection"}
  /\ rsp.desired[memberKey].kind = "Usage"
  /\ rsp.desired[memberKey].spec.of.resourceRef = [name |-> "inst-1", namespace |-> "ns1"]
  /\ rsp.desired["db-1-xr-protection"].kind = "ClusterUsage"
  /\ rsp.desired["db-1-xr-protection"].spec.of.resourceRef = [name |-> "db-1"]

\* C7, as claimed: in the scenario the desired set gains m1-protection and
\* db-1-xr-protection.
C7_ScenarioMemberKey == (Scenario /\ Succeeded) => ScenarioOutput("m1-protection")

\* C7, amended: in the scenario the desired set gains inst-1-protection,
\* named after the observed metadata.name, and db-1-xr-protection.
C7_ScenarioObservedName == (Scenario /\ Succeeded) => ScenarioOutput("inst-1-protection")

C7_Witness == Scenario /\ Succeeded /\ "inst-1-protection" \in DOMAIN rsp.desired

(***************************************************************************)
(* The helpers called alone, on any labels document and on any resource.   *)
(***************************************************************************)
\* The sixteen spellings of "true" and some values that are not.
LabelValues ==
  {Str(<<a, b, c, d>>) : a \in {"t", "T"}, b \in {"r", "R"},
                          c \in {"u", "U"}, d \in {"e", "E"}}
  \cup {Str(<<"f", "a", "l", "s", "e">>), Str(<<"y", "e", "s">>), Str(<<>>),
        Str(<<"t", "r", "u">>), Str(<<"t", "r", "u", "e", "s">>), Num, Bool}

\* Label keys beside the block-deletion label: the label fn.go declares and
\* never reads, the block-deletion key in another case, an ordinary label.
OtherLabels ==
  {ProtectionLabelEnabled, "protection.fn.crossplane.io/Block-Deletion", "app"}

\* A labels map: the block-deletion label or not, and at most one other
\* label, whose value is "true" or a number.
LabelMaps ==
  LET block == {Empty} \cup {One(ProtectionLabelBlockDeletion, v) : v \in LabelValues}
      other == {Empty} \cup {One(k, v) : k \in OtherLabels,
                                         v \in {Str(TrueChars), Num}}
  IN  {Override(b, o) : b \in block, o \in other}

LabelDocs == {NilObject, NoLabels, ScalarLabels} \cup {LabelMap(m) : m \in LabelMaps}

InitLabels ==
  /\ arg \in LabelDocs
  /\ result = NoCall
  /\ req = [composite |-> NoResource, observed |-> Empty, desired |-> Empty]
  /\ pc = "helper"
  /\ observedComposite = NoResource
  /\ observedComposed = Empty
  /\ desiredComposed = Empty
  /\ pending = {}
  /\ protectedCount = 0
  /\ rsp = ResponseTo(req)

helperFrame ==
  UNCHANGED <<arg, req, pc, observedComposite, observedComposed,
              desiredComposed, pending, protectedCount, rsp>>

CallMatchLabel ==
  /\ result' = [fn |-> "MatchLabel",
                value |-> MatchLabel(arg, ProtectionLabelBlockDeletion)]
  /\ helperFrame

CallProtectXR ==
  /\ result' = [fn |-> "ProtectXR", value |-> ProtectXR(arg)]
  /\ helperFrame

NextLabels == CallMatchLabel \/ CallProtectXR

SpecLabels == InitLabels /\ [][NextLabels]_vars

\* Resources of any kind, name and namespace.
UsageInputs ==
  {Resource(gv, k, n, ns, l) :
     gv \in {"s3.example.org/v1", "example.org/v1"},
     k \in {"Bucket", "XDatabase"},
     n \in {"inst-1", "db-1", ""},
     ns \in {"", "ns1", "ns2"},
     l \in RequestLabels}

InitUsage ==
  /\ arg \in UsageInputs
  /\ result = NoCall
  /\ req = [composite |-> NoResource, observed |-> Empty, desired |-> Empty]
  /\ pc = "helper"
  /\ observedComposite = NoResource
  /\ observedComposed = Empty
  /\ desiredComposed = Empty
  /\ pending = {}
  /\ protectedCount = 0
  /\ rsp = ResponseTo(req)

CallGenerateUsage ==
  /\ result' = [fn |-> "GenerateUsage", value |-> GenerateUsage(arg)]
  /\ helperFrame

CallGenerateXRUsage ==
  /\ result' = [fn |-> "GenerateXRUsage", value |-> GenerateXRUsage(arg)]
  /\ helperFrame

NextUsage == CallGenerateUsage \/ CallGenerateXRUsage

SpecUsage == InitUsage /\ [][NextUsage]_vars

(***************************************************************************)
(* C8: the usage GenerateUsage or GenerateXRUsage builds for a resource    *)
(* has the shape its namespace selects: Usage with a resourceRef of name   *)
(* and namespace when it has one, ClusterUsage with a resourceRef of name  *)
(* alone when it has none; its metadata.name is the resource's name with   *)
(* -function-protection, its spec.of the resource's apiVersion and kind.   *)
(***************************************************************************)
C8_UsageShape ==
  result.fn \in {"GenerateUsage", "GenerateXRUsage"} =>
    LET r == result.value
    IN  /\ arg.metadata.namespace # "" =>
             /\ r.kind = "Usage"
             /\ r.spec.of.resourceRef =
                  [name |-> arg.metadata.name, namespace |-> arg.metadata.namespace]
        /\ arg.metadata.namespace = "" =>
             /\ r.kind = "ClusterUsage"
             /\ r.spec.of.resourceRef = [name |-> arg.metadata.name]
        /\ r.metadata.name = arg.metadata.name \o "-function-protection"
        /\ r.spec.of.apiVersion = arg.apiVersion
        /\ r.spec.of.kind = arg.kind

\* GenerateXRUsage built the usage of a composite without a namespace.
C8_Witness ==
  /\ result.fn = "GenerateXRUsage"
  /\ arg.metadata.namespace = ""
  /\ arg.metadata.name = "db-1"
  /\ result.value.kind = "ClusterUsage"

(***************************************************************************)
(* C9: MatchLabel and ProtectXR both answer true exactly for a labels      *)
(* document that is a map holding the block-deletion key with a string     *)
(* that spells true in any case.                                           *)
(***************************************************************************)
C9_SameAnswer ==
  result.fn \in {"MatchLabel", "ProtectXR"} => (result.value <=> Marked(arg))

=============================================================================
